---- MODULE Spec2Model ----
(***************************************************************************)
(* FHE operation event decoder of the coprocessor                          *)
(* (src/coprocessor/src/events): the signature registry, the type tag, the *)
(* operation model with its accessors, parse_fhe_event with its per-kind   *)
(* layout parsers, and the listener loop that hands each delivered log to  *)
(* log_executor_event.                                                     *)
(*                                                                         *)
(* Representation.  A byte is a number in 0..255 and a byte buffer is a    *)
(* sequence of bytes; Rust's 0-based data[a..b] is Slice(data, a, b) and   *)
(* data[i] is At(data, i).  B256 and Address are 32- and 20-byte           *)
(* sequences.  A U256 is the sequence of its 32 base-256 digits, least     *)
(* significant first (ruint's little-endian limbs, cut into bytes); a      *)
(* usize is the sequence of its 8 base-256 digits, least significant       *)
(* first, so that 64-bit wrap-around and the U256 -> usize conversion are  *)
(* computed exactly.  Option<T> is a sequence of at most one element:      *)
(* None is << >> and Some(x) is <<x>>.                                     *)
(***************************************************************************)
EXTENDS Integers, Sequences, FiniteSets, TLC

VARIABLES
    pc,          \* position of listen_to_events: "waiting" | "handling" | "handled" | "ended" | "panicked"
    current,     \* the log last yielded by stream.next(), Option<Log>
    outcome,     \* what parse_fhe_event did on that log
    printed,     \* the line log_executor_event printed for that log
    delivered,   \* number of logs the stream has yielded
    handled,     \* number of logs log_executor_event has returned from
    accessed,    \* results of name(), result_handle(), caller() on the decoded operation
    tagByte,     \* input of FheType::from_u8
    tagResult,   \* its result, Option<FheType>
    cells,       \* the Lazy statics of signatures.rs: None until first dereferenced
    threads,     \* the call each thread is running: its argument, its place in the chain, its result
    knownCalls   \* number of calls of is_known_fhe_event made so far

vars == <<pc, current, outcome, printed, delivered, handled, accessed, tagByte, tagResult,
          cells, threads, knownCalls>>

None == << >>
Some(x) == <<x>>

\* ------------------------------------------------------------------ bytes

Byte == 0..255

\* data[a..b] of Rust (0-based, b exclusive); the caller has checked the range
Slice(data, a, b) == SubSeq(data, a + 1, b)

\* data[i] of Rust (0-based)
At(data, i) == data[i + 1]

Reverse(s) == [i \in 1..Len(s) |-> s[Len(s) + 1 - i]]

Zeros(n) == [i \in 1..n |-> 0]

\* ------------------------------------------------------------------ signatures.rs
\* keccak256 on the canonical signature strings (the only inputs event_sig is given)
keccak256 ==
       "FheAdd(address,bytes32,bytes32,bytes1,bytes32)" :>
         <<219, 144, 80, 214, 82, 64, 67, 22, 33, 214, 29, 111, 148, 185, 112, 230, 63, 83, 166, 122, 87, 102, 97, 78, 230, 229, 197, 187, 212, 28, 142, 46>>
    @@ "FheSub(address,bytes32,bytes32,bytes1,bytes32)" :>
         <<235, 109, 55, 189, 39, 26, 190, 19, 149, 178, 29, 109, 120, 243, 72, 125, 101, 132, 134, 40, 114, 194, 159, 253, 63, 144, 115, 110, 233, 155, 115, 147>>
    @@ "FheMul(address,bytes32,bytes32,bytes1,bytes32)" :>
         <<33, 83, 70, 164, 249, 249, 117, 230, 213, 72, 78, 41, 11, 212, 229, 60, 161, 68, 83, 169, 210, 130, 235, 211, 204, 237, 178, 160, 241, 113, 117, 61>>
    @@ "FheDiv(address,bytes32,bytes32,bytes1,bytes32)" :>
         <<59, 171, 46, 224, 226, 249, 15, 70, 144, 198, 168, 123, 246, 60, 241, 166, 182, 38, 8, 110, 149, 242, 49, 134, 11, 21, 41, 102, 232, 218, 187, 247>>
    @@ "FheRem(address,bytes32,bytes32,bytes1,bytes32)" :>
         <<14, 105, 28, 208, 191, 140, 78, 147, 8, 228, 206, 209, 187, 156, 150, 65, 23, 220, 92, 91, 185, 185, 171, 91, 223, 235, 242, 201, 177, 58, 137, 124>>
    @@ "FheBitAnd(address,bytes32,bytes32,bytes1,bytes32)" :>
         <<228, 36, 134, 176, 204, 219, 239, 129, 162, 7, 92, 72, 200, 229, 21, 192, 121, 174, 167, 60, 139, 130, 66, 153, 151, 199, 42, 47, 225, 191, 79, 239>>
    @@ "FheBitOr(address,bytes32,bytes32,bytes1,bytes32)" :>
         <<86, 223, 39, 155, 191, 176, 61, 158, 208, 151, 187, 226, 242, 141, 82, 12, 160, 193, 22, 18, 6, 50, 121, 38, 233, 134, 100, 215, 13, 44, 36, 196>>
    @@ "FheBitXor(address,bytes32,bytes32,bytes1,bytes32)" :>
         <<77, 50, 40, 75, 211, 25, 62, 202, 164, 78, 28, 236, 163, 47, 65, 197, 214, 195, 40, 3, 169, 46, 7, 150, 125, 211, 238, 66, 41, 114, 21, 130>>
    @@ "FheShl(address,bytes32,bytes32,bytes1,bytes32)" :>
         <<232, 66, 130, 170, 235, 204, 166, 152, 68, 62, 57, 162, 169, 72, 163, 69, 208, 210, 235, 198, 84, 175, 92, 182, 87, 162, 215, 232, 5, 59, 246, 203>>
    @@ "FheShr(address,bytes32,bytes32,bytes1,bytes32)" :>
         <<50, 66, 32, 191, 201, 203, 21, 139, 73, 41, 145, 192, 60, 48, 156, 216, 110, 83, 69, 202, 196, 90, 172, 174, 32, 146, 221, 171, 227, 31, 163, 216>>
    @@ "FheRotl(address,bytes32,bytes32,bytes1,bytes32)" :>
         <<235, 14, 79, 141, 199, 64, 88, 25, 77, 6, 2, 66, 95, 230, 2, 249, 85, 194, 34, 32, 15, 127, 16, 198, 254, 103, 153, 47, 123, 36, 199, 233>>
    @@ "FheRotr(address,bytes32,bytes32,bytes1,bytes32)" :>
         <<193, 72, 103, 89, 5, 208, 122, 213, 73, 111, 142, 244, 216, 25, 92, 144, 117, 3, 243, 236, 18, 253, 16, 237, 95, 33, 36, 10, 188, 105, 54, 52>>
    @@ "FheEq(address,bytes32,bytes32,bytes1,bytes32)" :>
         <<179, 213, 198, 100, 236, 134, 87, 88, 24, 232, 215, 95, 242, 92, 95, 134, 114, 80, 223, 137, 84, 8, 133, 73, 196, 28, 132, 140, 209, 14, 118, 203>>
    @@ "FheNe(address,bytes32,bytes32,bytes1,bytes32)" :>
         <<105, 96, 193, 232, 143, 97, 195, 82, 219, 163, 77, 27, 191, 103, 83, 227, 2, 121, 82, 100, 213, 216, 174, 130, 247, 152, 60, 112, 4, 101, 30, 93>>
    @@ "FheGe(address,bytes32,bytes32,bytes1,bytes32)" :>
         <<56, 195, 166, 60, 66, 48, 222, 91, 116, 31, 73, 79, 251, 84, 227, 8, 113, 4, 3, 2, 121, 188, 123, 204, 238, 138, 217, 173, 49, 113, 43, 33>>
    @@ "FheGt(address,bytes32,bytes32,bytes1,bytes32)" :>
         <<201, 255, 143, 13, 24, 163, 247, 102, 206, 93, 227, 222, 33, 96, 118, 5, 1, 64, 228, 252, 38, 82, 245, 224, 231, 69, 246, 252, 131, 108, 218, 139>>
    @@ "FheLe(address,bytes32,bytes32,bytes1,bytes32)" :>
         <<222, 242, 231, 4, 160, 119, 40, 74, 7, 243, 208, 180, 54, 219, 136, 245, 217, 129, 182, 159, 88, 171, 124, 26, 230, 35, 37, 39, 24, 166, 222, 1>>
    @@ "FheLt(address,bytes32,bytes32,bytes1,bytes32)" :>
         <<13, 72, 59, 16, 13, 140, 115, 178, 8, 152, 78, 198, 151, 202, 163, 9, 21, 33, 238, 85, 37, 206, 105, 237, 207, 151, 215, 227, 149, 211, 208, 89>>
    @@ "FheMin(address,bytes32,bytes32,bytes1,bytes32)" :>
         <<193, 29, 98, 177, 60, 54, 10, 131, 8, 36, 135, 6, 75, 225, 236, 8, 120, 178, 240, 190, 79, 1, 43, 245, 159, 137, 225, 40, 6, 61, 71, 255>>
    @@ "FheMax(address,bytes32,bytes32,bytes1,bytes32)" :>
         <<253, 124, 146, 8, 249, 86, 191, 12, 106, 183, 106, 102, 127, 4, 54, 18, 69, 173, 62, 10, 45, 14, 255, 146, 235, 130, 122, 207, 204, 166, 142, 169>>
    @@ "FheNeg(address,bytes32,bytes32)" :>
         <<140, 102, 77, 60, 60, 165, 131, 252, 88, 3, 184, 169, 28, 73, 100, 75, 189, 149, 80, 191, 168, 121, 103, 199, 58, 209, 222, 131, 2, 119, 104, 192>>
    @@ "FheNot(address,bytes32,bytes32)" :>
         <<85, 175, 244, 204, 122, 61, 22, 12, 131, 241, 241, 91, 129, 128, 17, 237, 232, 65, 160, 180, 89, 127, 177, 77, 205, 54, 3, 223, 58, 17, 229, 224>>
    @@ "TrivialEncrypt(address,uint256,uint8,bytes32)" :>
         <<6, 60, 205, 27, 186, 69, 21, 29, 145, 246, 164, 24, 6, 80, 71, 163, 208, 72, 208, 88, 169, 34, 83, 87, 71, 187, 43, 87, 90, 1, 210, 54>>
    @@ "Cast(address,bytes32,uint8,bytes32)" :>
         <<49, 204, 174, 106, 47, 142, 60, 237, 22, 146, 247, 124, 143, 102, 129, 51, 228, 175, 218, 170, 53, 175, 232, 68, 255, 70, 89, 166, 194, 126, 98, 127>>
    @@ "FheIfThenElse(address,bytes32,bytes32,bytes32,bytes32)" :>
         <<96, 190, 157, 97, 170, 216, 73, 250, 204, 40, 195, 139, 4, 140, 181, 196, 190, 52, 32, 184, 250, 34, 51, 224, 140, 250, 6, 190, 27, 109, 28, 62>>
    @@ "VerifyInput(address,bytes32,address,bytes,uint8,bytes32)" :>
         <<220, 55, 13, 179, 53, 137, 231, 51, 113, 220, 62, 228, 44, 120, 156, 0, 61, 51, 110, 239, 203, 124, 63, 86, 254, 15, 81, 174, 91, 29, 151, 2>>
    @@ "FheRand(address,uint8,bytes16,bytes32)" :>
         <<12, 138, 202, 96, 23, 0, 51, 38, 5, 30, 25, 145, 62, 240, 38, 49, 242, 75, 128, 17, 37, 225, 250, 138, 29, 129, 46, 134, 131, 25, 253, 166>>
    @@ "FheRandBounded(address,uint256,uint8,bytes16,bytes32)" :>
         <<82, 34, 217, 107, 131, 103, 39, 161, 214, 254, 30, 233, 174, 242, 127, 155, 181, 7, 189, 65, 121, 77, 239, 163, 118, 255, 108, 100, 138, 175, 143, 241>>

event_sig(sig) == keccak256[sig]

FHE_ADD == event_sig("FheAdd(address,bytes32,bytes32,bytes1,bytes32)")
\* FHE_SUB hashed from a copy of the line above it
FHE_SUB_copied == event_sig("FheAdd(address,bytes32,bytes32,bytes1,bytes32)")

FHE_SUB == event_sig("FheSub(address,bytes32,bytes32,bytes1,bytes32)")
FHE_MUL == event_sig("FheMul(address,bytes32,bytes32,bytes1,bytes32)")
FHE_DIV == event_sig("FheDiv(address,bytes32,bytes32,bytes1,bytes32)")
FHE_REM == event_sig("FheRem(address,bytes32,bytes32,bytes1,bytes32)")
FHE_BIT_AND == event_sig("FheBitAnd(address,bytes32,bytes32,bytes1,bytes32)")
FHE_BIT_OR == event_sig("FheBitOr(address,bytes32,bytes32,bytes1,bytes32)")
FHE_BIT_XOR == event_sig("FheBitXor(address,bytes32,bytes32,bytes1,bytes32)")
FHE_SHL == event_sig("FheShl(address,bytes32,bytes32,bytes1,bytes32)")
FHE_SHR == event_sig("FheShr(address,bytes32,bytes32,bytes1,bytes32)")
FHE_ROTL == event_sig("FheRotl(address,bytes32,bytes32,bytes1,bytes32)")
FHE_ROTR == event_sig("FheRotr(address,bytes32,bytes32,bytes1,bytes32)")
FHE_EQ == event_sig("FheEq(address,bytes32,bytes32,bytes1,bytes32)")
FHE_NE == event_sig("FheNe(address,bytes32,bytes32,bytes1,bytes32)")
FHE_GE == event_sig("FheGe(address,bytes32,bytes32,bytes1,bytes32)")
FHE_GT == event_sig("FheGt(address,bytes32,bytes32,bytes1,bytes32)")
FHE_LE == event_sig("FheLe(address,bytes32,bytes32,bytes1,bytes32)")
FHE_LT == event_sig("FheLt(address,bytes32,bytes32,bytes1,bytes32)")
FHE_MIN == event_sig("FheMin(address,bytes32,bytes32,bytes1,bytes32)")
FHE_MAX == event_sig("FheMax(address,bytes32,bytes32,bytes1,bytes32)")
FHE_NEG == event_sig("FheNeg(address,bytes32,bytes32)")
FHE_NOT == event_sig("FheNot(address,bytes32,bytes32)")
TRIVIAL_ENCRYPT == event_sig("TrivialEncrypt(address,uint256,uint8,bytes32)")
CAST == event_sig("Cast(address,bytes32,uint8,bytes32)")
FHE_IF_THEN_ELSE == event_sig("FheIfThenElse(address,bytes32,bytes32,bytes32,bytes32)")
VERIFY_INPUT == event_sig("VerifyInput(address,bytes32,address,bytes,uint8,bytes32)")
FHE_RAND == event_sig("FheRand(address,uint8,bytes16,bytes32)")
FHE_RAND_BOUNDED == event_sig("FheRandBounded(address,uint256,uint8,bytes16,bytes32)")

\* the statics of the registry, in source order: the event name the signature string
\* starts with, the value of the static, and the signature string
KnownSignatures == <<
    [name |-> "FheAdd", static |-> FHE_ADD,
     sig |-> "FheAdd(address,bytes32,bytes32,bytes1,bytes32)"],
    [name |-> "FheSub", static |-> FHE_SUB,
     sig |-> "FheSub(address,bytes32,bytes32,bytes1,bytes32)"],
    [name |-> "FheMul", static |-> FHE_MUL,
     sig |-> "FheMul(address,bytes32,bytes32,bytes1,bytes32)"],
    [name |-> "FheDiv", static |-> FHE_DIV,
     sig |-> "FheDiv(address,bytes32,bytes32,bytes1,bytes32)"],
    [name |-> "FheRem", static |-> FHE_REM,
     sig |-> "FheRem(address,bytes32,bytes32,bytes1,bytes32)"],
    [name |-> "FheBitAnd", static |-> FHE_BIT_AND,
     sig |-> "FheBitAnd(address,bytes32,bytes32,bytes1,bytes32)"],
    [name |-> "FheBitOr", static |-> FHE_BIT_OR,
     sig |-> "FheBitOr(address,bytes32,bytes32,bytes1,bytes32)"],
    [name |-> "FheBitXor", static |-> FHE_BIT_XOR,
     sig |-> "FheBitXor(address,bytes32,bytes32,bytes1,bytes32)"],
    [name |-> "FheShl", static |-> FHE_SHL,
     sig |-> "FheShl(address,bytes32,bytes32,bytes1,bytes32)"],
    [name |-> "FheShr", static |-> FHE_SHR,
     sig |-> "FheShr(address,bytes32,bytes32,bytes1,bytes32)"],
    [name |-> "FheRotl", static |-> FHE_ROTL,
     sig |-> "FheRotl(address,bytes32,bytes32,bytes1,bytes32)"],
    [name |-> "FheRotr", static |-> FHE_ROTR,
     sig |-> "FheRotr(address,bytes32,bytes32,bytes1,bytes32)"],
    [name |-> "FheEq", static |-> FHE_EQ,
     sig |-> "FheEq(address,bytes32,bytes32,bytes1,bytes32)"],
    [name |-> "FheNe", static |-> FHE_NE,
     sig |-> "FheNe(address,bytes32,bytes32,bytes1,bytes32)"],
    [name |-> "FheGe", static |-> FHE_GE,
     sig |-> "FheGe(address,bytes32,bytes32,bytes1,bytes32)"],
    [name |-> "FheGt", static |-> FHE_GT,
     sig |-> "FheGt(address,bytes32,bytes32,bytes1,bytes32)"],
    [name |-> "FheLe", static |-> FHE_LE,
     sig |-> "FheLe(address,bytes32,bytes32,bytes1,bytes32)"],
    [name |-> "FheLt", static |-> FHE_LT,
     sig |-> "FheLt(address,bytes32,bytes32,bytes1,bytes32)"],
    [name |-> "FheMin", static |-> FHE_MIN,
     sig |-> "FheMin(address,bytes32,bytes32,bytes1,bytes32)"],
    [name |-> "FheMax", static |-> FHE_MAX,
     sig |-> "FheMax(address,bytes32,bytes32,bytes1,bytes32)"],
    [name |-> "FheNeg", static |-> FHE_NEG,
     sig |-> "FheNeg(address,bytes32,bytes32)"],
    [name |-> "FheNot", static |-> FHE_NOT,
     sig |-> "FheNot(address,bytes32,bytes32)"],
    [name |-> "TrivialEncrypt", static |-> TRIVIAL_ENCRYPT,
     sig |-> "TrivialEncrypt(address,uint256,uint8,bytes32)"],
    [name |-> "Cast", static |-> CAST,
     sig |-> "Cast(address,bytes32,uint8,bytes32)"],
    [name |-> "FheIfThenElse", static |-> FHE_IF_THEN_ELSE,
     sig |-> "FheIfThenElse(address,bytes32,bytes32,bytes32,bytes32)"],
    [name |-> "VerifyInput", static |-> VERIFY_INPUT,
     sig |-> "VerifyInput(address,bytes32,address,bytes,uint8,bytes32)"],
    [name |-> "FheRand", static |-> FHE_RAND,
     sig |-> "FheRand(address,uint8,bytes16,bytes32)"],
    [name |-> "FheRandBounded", static |-> FHE_RAND_BOUNDED,
     sig |-> "FheRandBounded(address,uint256,uint8,bytes16,bytes32)"]
>>

\* is_known_fhe_event without its last line
is_known_fhe_event_one_short(topic0) ==
       topic0 = FHE_ADD
    \/ topic0 = FHE_SUB
    \/ topic0 = FHE_MUL
    \/ topic0 = FHE_DIV
    \/ topic0 = FHE_REM
    \/ topic0 = FHE_BIT_AND
    \/ topic0 = FHE_BIT_OR
    \/ topic0 = FHE_BIT_XOR
    \/ topic0 = FHE_SHL
    \/ topic0 = FHE_SHR
    \/ topic0 = FHE_ROTL
    \/ topic0 = FHE_ROTR
    \/ topic0 = FHE_EQ
    \/ topic0 = FHE_NE
    \/ topic0 = FHE_GE
    \/ topic0 = FHE_GT
    \/ topic0 = FHE_LE
    \/ topic0 = FHE_LT
    \/ topic0 = FHE_MIN
    \/ topic0 = FHE_MAX
    \/ topic0 = FHE_NEG
    \/ topic0 = FHE_NOT
    \/ topic0 = TRIVIAL_ENCRYPT
    \/ topic0 = CAST
    \/ topic0 = FHE_IF_THEN_ELSE
    \/ topic0 = VERIFY_INPUT
    \/ topic0 = FHE_RAND

is_known_fhe_event(topic0) ==
       topic0 = FHE_ADD
    \/ topic0 = FHE_SUB
    \/ topic0 = FHE_MUL
    \/ topic0 = FHE_DIV
    \/ topic0 = FHE_REM
    \/ topic0 = FHE_BIT_AND
    \/ topic0 = FHE_BIT_OR
    \/ topic0 = FHE_BIT_XOR
    \/ topic0 = FHE_SHL
    \/ topic0 = FHE_SHR
    \/ topic0 = FHE_ROTL
    \/ topic0 = FHE_ROTR
    \/ topic0 = FHE_EQ
    \/ topic0 = FHE_NE
    \/ topic0 = FHE_GE
    \/ topic0 = FHE_GT
    \/ topic0 = FHE_LE
    \/ topic0 = FHE_LT
    \/ topic0 = FHE_MIN
    \/ topic0 = FHE_MAX
    \/ topic0 = FHE_NEG
    \/ topic0 = FHE_NOT
    \/ topic0 = TRIVIAL_ENCRYPT
    \/ topic0 = CAST
    \/ topic0 = FHE_IF_THEN_ELSE
    \/ topic0 = VERIFY_INPUT
    \/ topic0 = FHE_RAND
    \/ topic0 = FHE_RAND_BOUNDED

\* ------------------------------------------------------------------ types.rs

FheTypeNames == <<"Bool", "Uint4", "Uint8", "Uint16", "Uint32", "Uint64", "Uint128",
                  "Uint160", "Uint256", "Bytes64", "Bytes128", "Bytes256">>

\* from_u8 that also accepts 12
from_u8_accepts_12(value) ==
    IF value <= 11 THEN Some(FheTypeNames[value + 1])
    ELSE IF value = 12 THEN Some("Bytes256")
    ELSE None

\* FheType::from_u8
from_u8(value) ==
    CASE value = 0 -> Some("Bool")
      [] value = 1 -> Some("Uint4")
      [] value = 2 -> Some("Uint8")
      [] value = 3 -> Some("Uint16")
      [] value = 4 -> Some("Uint32")
      [] value = 5 -> Some("Uint64")
      [] value = 6 -> Some("Uint128")
      [] value = 7 -> Some("Uint160")
      [] value = 8 -> Some("Uint256")
      [] value = 9 -> Some("Bytes64")
      [] value = 10 -> Some("Bytes128")
      [] value = 11 -> Some("Bytes256")
      [] OTHER -> None

\* FheType::name
FheType_name(t) ==
    CASE t = "Bool" -> "ebool"
      [] t = "Uint4" -> "euint4"
      [] t = "Uint8" -> "euint8"
      [] t = "Uint16" -> "euint16"
      [] t = "Uint32" -> "euint32"
      [] t = "Uint64" -> "euint64"
      [] t = "Uint128" -> "euint128"
      [] t = "Uint160" -> "eaddress"
      [] t = "Uint256" -> "euint256"
      [] t = "Bytes64" -> "ebytes64"
      [] t = "Bytes128" -> "ebytes128"
      [] t = "Bytes256" -> "ebytes256"

\* BinaryOpType::name with the arm of Le copied from Lt
BinaryOpType_name_copied(t) ==
    IF t = "Le" THEN "FheLt" ELSE "Fhe" \o t

\* BinaryOpType::name
BinaryOpType_name(t) ==
    CASE t = "Add" -> "FheAdd"
      [] t = "Sub" -> "FheSub"
      [] t = "Mul" -> "FheMul"
      [] t = "Div" -> "FheDiv"
      [] t = "Rem" -> "FheRem"
      [] t = "BitAnd" -> "FheBitAnd"
      [] t = "BitOr" -> "FheBitOr"
      [] t = "BitXor" -> "FheBitXor"
      [] t = "Shl" -> "FheShl"
      [] t = "Shr" -> "FheShr"
      [] t = "Rotl" -> "FheRotl"
      [] t = "Rotr" -> "FheRotr"
      [] t = "Eq" -> "FheEq"
      [] t = "Ne" -> "FheNe"
      [] t = "Ge" -> "FheGe"
      [] t = "Gt" -> "FheGt"
      [] t = "Le" -> "FheLe"
      [] t = "Lt" -> "FheLt"
      [] t = "Min" -> "FheMin"
      [] t = "Max" -> "FheMax"

\* UnaryOpType::name
UnaryOpType_name(t) ==
    CASE t = "Neg" -> "FheNeg"
      [] t = "Not" -> "FheNot"

\* An FheOperation is a record whose field variant names the enum variant; the
\* variant's struct fields are the other fields (Unknown: topic0 and data).

\* FheOperation::name
name(op) ==
    CASE op.variant = "Binary" -> BinaryOpType_name(op.op_type)
      [] op.variant = "Unary" -> UnaryOpType_name(op.op_type)
      [] op.variant = "TrivialEncrypt" -> "TrivialEncrypt"
      [] op.variant = "Cast" -> "Cast"
      [] op.variant = "IfThenElse" -> "FheIfThenElse"
      [] op.variant = "VerifyInput" -> "VerifyInput"
      [] op.variant = "Rand" -> "FheRand"
      [] op.variant = "RandBounded" -> "FheRandBounded"
      [] op.variant = "Unknown" -> "Unknown"

\* result_handle returning the first handle field of a Cast
result_handle_wrong_field(op) ==
    IF op.variant = "Unknown" THEN None
    ELSE IF op.variant = "Cast" THEN Some(op.ct)
    ELSE Some(op.result)

\* FheOperation::result_handle
result_handle(op) ==
    CASE op.variant = "Binary" -> Some(op.result)
      [] op.variant = "Unary" -> Some(op.result)
      [] op.variant = "TrivialEncrypt" -> Some(op.result)
      [] op.variant = "Cast" -> Some(op.result)
      [] op.variant = "IfThenElse" -> Some(op.result)
      [] op.variant = "VerifyInput" -> Some(op.result)
      [] op.variant = "Rand" -> Some(op.result)
      [] op.variant = "RandBounded" -> Some(op.result)
      [] op.variant = "Unknown" -> None

\* FheOperation::caller
caller(op) ==
    CASE op.variant = "Binary" -> Some(op.metadata.caller)
      [] op.variant = "Unary" -> Some(op.metadata.caller)
      [] op.variant = "TrivialEncrypt" -> Some(op.metadata.caller)
      [] op.variant = "Cast" -> Some(op.metadata.caller)
      [] op.variant = "IfThenElse" -> Some(op.metadata.caller)
      [] op.variant = "VerifyInput" -> Some(op.metadata.caller)
      [] op.variant = "Rand" -> Some(op.metadata.caller)
      [] op.variant = "RandBounded" -> Some(op.metadata.caller)
      [] op.variant = "Unknown" -> None

\* ------------------------------------------------------------------ alloy primitives

\* B256::from_slice: panics unless the slice is 32 bytes long; the parsers only pass 32-byte slices
B256_from_slice(s) == s

\* Address::from_slice: likewise for 20 bytes
Address_from_slice(s) == s

Address_ZERO == Zeros(20)

\* from_be_slice reading the bytes least significant first
U256_from_le_slice(s) == s \o Zeros(32 - Len(s))

\* U256::from_be_slice: the big-endian bytes of s as a 256-bit value (Len(s) <= 32)
U256_from_be_slice(s) == Reverse(s) \o Zeros(32 - Len(s))

\* whether Uint::to::<usize>() succeeds: the value is below 2^64
FitsUsize(u) == \A i \in 9..32 : u[i] = 0

\* Uint::to::<usize>() of a value that fits
to_usize(u) == SubSeq(u, 1, 8)

\* a small natural number (below 2^31) as a usize
UsizeOf(n) ==
    [i \in 1..8 |-> CASE i = 1 -> n % 256
                      [] i = 2 -> (n \div 256) % 256
                      [] i = 3 -> (n \div 65536) % 256
                      [] i = 4 -> (n \div 16777216) % 256
                      [] OTHER -> 0]

\* carry out of digit i of x + y
RECURSIVE CarryOut(_, _, _)
CarryOut(x, y, i) ==
    IF i = 0 THEN 0 ELSE (x[i] + y[i] + CarryOut(x, y, i - 1)) \div 256

\* usize addition: the wrapped sum, and whether the true sum reached 2^64
UsizeAdd(x, y) ==
    [sum |-> [i \in 1..8 |-> (x[i] + y[i] + CarryOut(x, y, i - 1)) % 256],
     overflow |-> CarryOut(x, y, 8) = 1]

\* x <= y on usize
UsizeLeq(x, y) ==
    LET differ == {i \in 1..8 : x[i] # y[i]}
    IN  \/ differ = {}
        \/ LET top == CHOOSE i \in differ : \A j \in differ : j <= i
           IN  x[top] < y[top]

\* a usize known to be at most a buffer length, as a natural number
UsizeToNat(x) == x[1] + 256 * x[2] + 65536 * x[3] + 16777216 * x[4]

\* ------------------------------------------------------------------ parser.rs

\* Option::unwrap_or
unwrap_or(opt, default) == IF opt = None THEN default ELSE opt[1]

\* What a call did: it returned ret, or it panicked with msg.
Returned(v) == [panicked |-> FALSE, ret |-> v, msg |-> ""]
Panicked(m) == [panicked |-> TRUE, ret |-> None, msg |-> m]

MIN_BINARY == 128
MIN_UNARY == 64
MIN_TRIVIAL_ENCRYPT == 96
MIN_CAST == 96
MIN_IF_THEN_ELSE == 128
MIN_VERIFY_INPUT == 160
MIN_RAND == 96
MIN_RAND_BOUNDED == 128

\* parse_binary_op with the length test off by one
parse_binary_op_off_by_one(op_type, metadata, data) ==
    IF Len(data) <= MIN_BINARY THEN None
    ELSE Some([variant |-> "Binary",
               metadata |-> metadata,
               op_type |-> op_type,
               lhs |-> B256_from_slice(Slice(data, 0, 32)),
               rhs |-> B256_from_slice(Slice(data, 32, 64)),
               scalar_byte |-> At(data, 95),
               result |-> B256_from_slice(Slice(data, 96, 128))])

\* parse_binary_op with the scalar read from the first byte of its word
parse_binary_op_first_byte(op_type, metadata, data) ==
    IF Len(data) < MIN_BINARY THEN None
    ELSE Some([variant |-> "Binary",
               metadata |-> metadata,
               op_type |-> op_type,
               lhs |-> B256_from_slice(Slice(data, 0, 32)),
               rhs |-> B256_from_slice(Slice(data, 32, 64)),
               scalar_byte |-> At(data, 64),
               result |-> B256_from_slice(Slice(data, 96, 128))])

parse_binary_op(op_type, metadata, data) ==
    IF Len(data) < MIN_BINARY THEN None
    ELSE Some([variant |-> "Binary",
               metadata |-> metadata,
               op_type |-> op_type,
               lhs |-> B256_from_slice(Slice(data, 0, 32)),
               rhs |-> B256_from_slice(Slice(data, 32, 64)),
               scalar_byte |-> At(data, 95),
               result |-> B256_from_slice(Slice(data, 96, 128))])

parse_unary_op(op_type, metadata, data) ==
    IF Len(data) < MIN_UNARY THEN None
    ELSE Some([variant |-> "Unary",
               metadata |-> metadata,
               op_type |-> op_type,
               ct |-> B256_from_slice(Slice(data, 0, 32)),
               result |-> B256_from_slice(Slice(data, 32, 64))])

\* parse_trivial_encrypt that rejects a toType word with non-zero padding
parse_trivial_encrypt_strict(metadata, data) ==
    IF Len(data) < MIN_TRIVIAL_ENCRYPT THEN None
    ELSE LET to_type == IF \A i \in 32..62 : At(data, i) = 0
                        THEN from_u8(At(data, 63)) ELSE None
         IN  IF to_type = None THEN None
             ELSE Some([variant |-> "TrivialEncrypt",
                        metadata |-> metadata,
                        plaintext |-> U256_from_be_slice(Slice(data, 0, 32)),
                        to_type |-> to_type[1],
                        result |-> B256_from_slice(Slice(data, 64, 96))])

parse_trivial_encrypt(metadata, data) ==
    IF Len(data) < MIN_TRIVIAL_ENCRYPT THEN None
    ELSE LET to_type == from_u8(At(data, 63))
         IN  IF to_type = None THEN None
             ELSE Some([variant |-> "TrivialEncrypt",
                        metadata |-> metadata,
                        plaintext |-> U256_from_be_slice(Slice(data, 0, 32)),
                        to_type |-> to_type[1],
                        result |-> B256_from_slice(Slice(data, 64, 96))])

parse_cast(metadata, data) ==
    IF Len(data) < MIN_CAST THEN None
    ELSE LET to_type == from_u8(At(data, 63))
         IN  IF to_type = None THEN None
             ELSE Some([variant |-> "Cast",
                        metadata |-> metadata,
                        ct |-> B256_from_slice(Slice(data, 0, 32)),
                        to_type |-> to_type[1],
                        result |-> B256_from_slice(Slice(data, 64, 96))])

\* parse_if_then_else with the two branch handles exchanged
parse_if_then_else_swapped(metadata, data) ==
    IF Len(data) < MIN_IF_THEN_ELSE THEN None
    ELSE Some([variant |-> "IfThenElse",
               metadata |-> metadata,
               control |-> B256_from_slice(Slice(data, 0, 32)),
               if_true |-> B256_from_slice(Slice(data, 64, 96)),
               if_false |-> B256_from_slice(Slice(data, 32, 64)),
               result |-> B256_from_slice(Slice(data, 96, 128))])

parse_if_then_else(metadata, data) ==
    IF Len(data) < MIN_IF_THEN_ELSE THEN None
    ELSE Some([variant |-> "IfThenElse",
               metadata |-> metadata,
               control |-> B256_from_slice(Slice(data, 0, 32)),
               if_true |-> B256_from_slice(Slice(data, 32, 64)),
               if_false |-> B256_from_slice(Slice(data, 64, 96)),
               result |-> B256_from_slice(Slice(data, 96, 128))])

\* The dynamic inputProof of parse_verify_input (the block of lines 213-228).
\* overflow_checks is the build's setting: with it an overflowing usize addition
\* panics, without it the sum wraps modulo 2^64.  Slicing data[a..b] panics when
\* a > b or b > data.len().
input_proof_of(data, overflow_checks) ==
    IF ~(Len(data) > MIN_VERIFY_INPUT) THEN Returned(<< >>)
    ELSE
    LET data_len == UsizeOf(Len(data))
        offset_word == U256_from_be_slice(Slice(data, 64, 96))
    IN
    IF ~FitsUsize(offset_word) THEN Panicked("Uint::to: offset does not fit usize")
    ELSE
    LET offset == to_usize(offset_word)
        len_at == UsizeAdd(offset, UsizeOf(32))
    IN
    IF len_at.overflow /\ overflow_checks THEN Panicked("attempt to add with overflow: offset + 32")
    ELSE IF ~UsizeLeq(len_at.sum, data_len) THEN Returned(<< >>)
    ELSE IF ~UsizeLeq(offset, len_at.sum) THEN Panicked("slice index starts after its end: data[offset..offset + 32]")
    ELSE
    LET off == UsizeToNat(offset)
        len_word == U256_from_be_slice(Slice(data, off, off + 32))
    IN
    IF ~FitsUsize(len_word) THEN Panicked("Uint::to: length does not fit usize")
    ELSE
    LET len == to_usize(len_word)
        proof_end == UsizeAdd(len_at.sum, len)
    IN
    IF proof_end.overflow /\ overflow_checks THEN Panicked("attempt to add with overflow: offset + 32 + len")
    ELSE IF ~UsizeLeq(proof_end.sum, data_len) THEN Returned(<< >>)
    ELSE IF ~UsizeLeq(len_at.sum, proof_end.sum) THEN Panicked("slice index starts after its end: data[offset + 32..offset + 32 + len]")
    ELSE Returned(Slice(data, off + 32, UsizeToNat(proof_end.sum)))

parse_verify_input(metadata, data, overflow_checks) ==
    IF Len(data) < MIN_VERIFY_INPUT THEN Returned(None)
    ELSE LET input_type == from_u8(At(data, 127))
             input_proof == input_proof_of(data, overflow_checks)
         IN  IF input_type = None THEN Returned(None)
             ELSE IF input_proof.panicked THEN input_proof
             ELSE Returned(Some([variant |-> "VerifyInput",
                                 metadata |-> metadata,
                                 input_handle |-> B256_from_slice(Slice(data, 0, 32)),
                                 user_address |-> Address_from_slice(Slice(data, 44, 64)),
                                 input_proof |-> input_proof.ret,
                                 input_type |-> input_type[1],
                                 result |-> B256_from_slice(Slice(data, 128, 160))]))

\* parse_fhe_rand with the seed copied from the last 16 bytes of its word
parse_fhe_rand_seed_tail(metadata, data) ==
    IF Len(data) < MIN_RAND THEN None
    ELSE LET rand_type == from_u8(At(data, 31))
         IN  IF rand_type = None THEN None
             ELSE Some([variant |-> "Rand",
                        metadata |-> metadata,
                        rand_type |-> rand_type[1],
                        seed |-> Slice(data, 48, 64),
                        result |-> B256_from_slice(Slice(data, 64, 96))])

parse_fhe_rand(metadata, data) ==
    IF Len(data) < MIN_RAND THEN None
    ELSE LET rand_type == from_u8(At(data, 31))
         IN  IF rand_type = None THEN None
             ELSE Some([variant |-> "Rand",
                        metadata |-> metadata,
                        rand_type |-> rand_type[1],
                        seed |-> Slice(data, 32, 48),
                        result |-> B256_from_slice(Slice(data, 64, 96))])

parse_fhe_rand_bounded(metadata, data) ==
    IF Len(data) < MIN_RAND_BOUNDED THEN None
    ELSE LET rand_type == from_u8(At(data, 63))
         IN  IF rand_type = None THEN None
             ELSE Some([variant |-> "RandBounded",
                        metadata |-> metadata,
                        upper_bound |-> U256_from_be_slice(Slice(data, 0, 32)),
                        rand_type |-> rand_type[1],
                        seed |-> Slice(data, 64, 80),
                        result |-> B256_from_slice(Slice(data, 96, 128))])

\* metadata_of with the caller taken from the first 20 bytes of topics[1]
metadata_of_first_20(log) ==
    [block_number |-> unwrap_or(log.block_number, 0),
     tx_hash |-> log.transaction_hash,
     log_index |-> unwrap_or(log.log_index, 0),
     caller |-> IF Len(log.topics) > 1
                THEN Address_from_slice(Slice(log.topics[2], 0, 20))
                ELSE Address_ZERO]

\* the EventMetadata parse_fhe_event builds (lines 19-29); topics is not empty
metadata_of(log) ==
    [block_number |-> unwrap_or(log.block_number, 0),
     tx_hash |-> log.transaction_hash,
     log_index |-> unwrap_or(log.log_index, 0),
     caller |-> IF Len(log.topics) > 1
                THEN Address_from_slice(Slice(log.topics[2], 12, 32))
                ELSE Address_ZERO]

\* Unknown without the copy of data
unknown_operation_no_data(topic0, data) == [variant |-> "Unknown", topic0 |-> topic0, data |-> << >>]

\* FheOperation::Unknown { topic0: *topic0, data: data.to_vec() }
unknown_operation(topic0, data) == [variant |-> "Unknown", topic0 |-> topic0, data |-> data]

\* the if/else chain of parse_fhe_event (lines 31-92)
dispatch(topic0, metadata, data, overflow_checks) ==
    IF topic0 = FHE_ADD THEN Returned(parse_binary_op("Add", metadata, data))
    ELSE IF topic0 = FHE_SUB THEN Returned(parse_binary_op("Sub", metadata, data))
    ELSE IF topic0 = FHE_MUL THEN Returned(parse_binary_op("Mul", metadata, data))
    ELSE IF topic0 = FHE_DIV THEN Returned(parse_binary_op("Div", metadata, data))
    ELSE IF topic0 = FHE_REM THEN Returned(parse_binary_op("Rem", metadata, data))
    ELSE IF topic0 = FHE_BIT_AND THEN Returned(parse_binary_op("BitAnd", metadata, data))
    ELSE IF topic0 = FHE_BIT_OR THEN Returned(parse_binary_op("BitOr", metadata, data))
    ELSE IF topic0 = FHE_BIT_XOR THEN Returned(parse_binary_op("BitXor", metadata, data))
    ELSE IF topic0 = FHE_SHL THEN Returned(parse_binary_op("Shl", metadata, data))
    ELSE IF topic0 = FHE_SHR THEN Returned(parse_binary_op("Shr", metadata, data))
    ELSE IF topic0 = FHE_ROTL THEN Returned(parse_binary_op("Rotl", metadata, data))
    ELSE IF topic0 = FHE_ROTR THEN Returned(parse_binary_op("Rotr", metadata, data))
    ELSE IF topic0 = FHE_EQ THEN Returned(parse_binary_op("Eq", metadata, data))
    ELSE IF topic0 = FHE_NE THEN Returned(parse_binary_op("Ne", metadata, data))
    ELSE IF topic0 = FHE_GE THEN Returned(parse_binary_op("Ge", metadata, data))
    ELSE IF topic0 = FHE_GT THEN Returned(parse_binary_op("Gt", metadata, data))
    ELSE IF topic0 = FHE_LE THEN Returned(parse_binary_op("Le", metadata, data))
    ELSE IF topic0 = FHE_LT THEN Returned(parse_binary_op("Lt", metadata, data))
    ELSE IF topic0 = FHE_MIN THEN Returned(parse_binary_op("Min", metadata, data))
    ELSE IF topic0 = FHE_MAX THEN Returned(parse_binary_op("Max", metadata, data))
    ELSE IF topic0 = FHE_NEG THEN Returned(parse_unary_op("Neg", metadata, data))
    ELSE IF topic0 = FHE_NOT THEN Returned(parse_unary_op("Not", metadata, data))
    ELSE IF topic0 = TRIVIAL_ENCRYPT THEN Returned(parse_trivial_encrypt(metadata, data))
    ELSE IF topic0 = CAST THEN Returned(parse_cast(metadata, data))
    ELSE IF topic0 = FHE_IF_THEN_ELSE THEN Returned(parse_if_then_else(metadata, data))
    ELSE IF topic0 = VERIFY_INPUT THEN parse_verify_input(metadata, data, overflow_checks)
    ELSE IF topic0 = FHE_RAND THEN Returned(parse_fhe_rand(metadata, data))
    ELSE IF topic0 = FHE_RAND_BOUNDED THEN Returned(parse_fhe_rand_bounded(metadata, data))
    ELSE Returned(Some(unknown_operation(topic0, data)))

\* parse_fhe_event that classifies a log without topics as Unknown
parse_fhe_event_empty_unknown(log, overflow_checks) ==
    IF log.topics = << >> THEN Returned(Some(unknown_operation(Zeros(32), log.data)))
    ELSE dispatch(log.topics[1], metadata_of(log), log.data, overflow_checks)

parse_fhe_event(log, overflow_checks) ==
    IF log.topics = << >> THEN Returned(None)
    ELSE dispatch(log.topics[1], metadata_of(log), log.data, overflow_checks)

HexDigits == <<"0", "1", "2", "3", "4", "5", "6", "7", "8", "9", "a", "b", "c", "d", "e", "f">>

\* hex::encode
RECURSIVE hex_encode(_)
hex_encode(bytes) ==
    IF bytes = << >> THEN ""
    ELSE HexDigits[(Head(bytes) \div 16) + 1] \o HexDigits[(Head(bytes) % 16) + 1]
         \o hex_encode(Tail(bytes))

\* short_b256: "0x", the first 8 hex characters (the first 4 bytes), "..."
short_b256(value) == "0x" \o hex_encode(SubSeq(value, 1, 4)) \o "..."

short_tx(tx) == IF tx = None THEN "N/A" ELSE "0x" \o hex_encode(SubSeq(tx[1], 1, 4)) \o "..."

\* log_fhe_operation: the values its println! is given, by placeholder; numbers,
\* addresses and U256 values stand for their Display text.
log_fhe_operation(op) ==
    CASE op.variant = "TrivialEncrypt" ->
           [op |-> "TrivialEncrypt", block |-> op.metadata.block_number,
            tx |-> short_tx(op.metadata.tx_hash), caller |-> op.metadata.caller,
            pt |-> op.plaintext, type |-> FheType_name(op.to_type),
            result |-> short_b256(op.result)]
      [] op.variant = "Binary" ->
           [op |-> BinaryOpType_name(op.op_type), block |-> op.metadata.block_number,
            tx |-> short_tx(op.metadata.tx_hash), caller |-> op.metadata.caller,
            lhs |-> short_b256(op.lhs), rhs |-> short_b256(op.rhs),
            scalar |-> IF op.scalar_byte = 1 THEN "true" ELSE "false",
            result |-> short_b256(op.result)]
      [] op.variant = "Unary" ->
           [op |-> UnaryOpType_name(op.op_type), block |-> op.metadata.block_number,
            tx |-> short_tx(op.metadata.tx_hash), caller |-> op.metadata.caller,
            input |-> short_b256(op.ct), result |-> short_b256(op.result)]
      [] op.variant = "IfThenElse" ->
           [op |-> "FheIfThenElse", block |-> op.metadata.block_number,
            tx |-> short_tx(op.metadata.tx_hash), caller |-> op.metadata.caller,
            ctrl |-> short_b256(op.control), true |-> short_b256(op.if_true),
            false |-> short_b256(op.if_false), result |-> short_b256(op.result)]
      [] op.variant = "Cast" ->
           [op |-> "Cast", block |-> op.metadata.block_number,
            tx |-> short_tx(op.metadata.tx_hash), caller |-> op.metadata.caller,
            input |-> short_b256(op.ct), toType |-> FheType_name(op.to_type),
            result |-> short_b256(op.result)]
      [] op.variant = "VerifyInput" ->
           [op |-> "VerifyInput", block |-> op.metadata.block_number,
            tx |-> short_tx(op.metadata.tx_hash), caller |-> op.metadata.caller,
            handle |-> short_b256(op.input_handle), user |-> op.user_address,
            type |-> FheType_name(op.input_type), proof_len |-> Len(op.input_proof),
            result |-> short_b256(op.result)]
      [] op.variant = "Rand" ->
           [op |-> "FheRand", block |-> op.metadata.block_number,
            tx |-> short_tx(op.metadata.tx_hash), caller |-> op.metadata.caller,
            type |-> FheType_name(op.rand_type), seed |-> hex_encode(SubSeq(op.seed, 1, 4)),
            result |-> short_b256(op.result)]
      [] op.variant = "RandBounded" ->
           [op |-> "FheRandBounded", block |-> op.metadata.block_number,
            tx |-> short_tx(op.metadata.tx_hash), caller |-> op.metadata.caller,
            upperBound |-> op.upper_bound, type |-> FheType_name(op.rand_type),
            seed |-> hex_encode(SubSeq(op.seed, 1, 4)), result |-> short_b256(op.result)]
      [] op.variant = "Unknown" ->
           [op |-> "Unknown", topic0 |-> short_b256(op.topic0), data_len |-> Len(op.data)]

\* the line log_executor_event prints when parse_fhe_event returns None
failed_line(log) == [failed |-> "Failed to parse event from", address |-> log.address]

\* what log_executor_event prints for a log on which parse_fhe_event returned parsed
executor_line(log, parsed) ==
    IF parsed = None THEN failed_line(log) ELSE log_fhe_operation(parsed[1])

\* ------------------------------------------------------------------ the logs the stream may deliver

\* number of logs the stream yields before it ends
MaxLogs == 2

\* number of distinct handle values the synthetic payloads choose from
NumHandles == 2

\* a 32-byte word whose bytes all differ from those of any other Handle(k)
Handle(k) == [i \in 1..32 |-> (16 * k + i) % 256]

Handles == {Handle(k) : k \in 1..NumHandles}

\* the 32-byte big-endian word of a number below 2^16
WordOf(n) == Zeros(30) \o <<n \div 256, n % 256>>

\* byte i (0-based) of the filler pattern: distinct for i < 256
PatternByte(i) == (37 * i + 11) % 256

TagPositions == {31, 63, 127}

\* n filler bytes with the byte tag at each type-tag position
Pattern(n, tag) ==
    [i \in 1..n |-> IF (i - 1) \in TagPositions THEN tag ELSE PatternByte(i - 1)]

DataLengths == {0, 1, 63, 64, 95, 96, 127, 128, 159, 160, 161, 200}

TagBytes == {0, 5, 11, 12, 255}

PatternData == {Pattern(n, tag) : n \in DataLengths, tag \in TagBytes}

ScalarBytes == {0, 1, 255}

\* lhs || rhs || (31 zero bytes, scalar) || result
BinaryPayload(lhs, rhs, scalar, result) == lhs \o rhs \o Zeros(31) \o <<scalar>> \o result

BinaryPayloads ==
    {BinaryPayload(lhs, rhs, scalar, result) :
        lhs \in Handles, rhs \in Handles, scalar \in ScalarBytes, result \in Handles}

UserAddress == [i \in 1..20 |-> 200 + i]

\* 2^64 - 192, 2^64 - 32, 2^64 - 1 and 2^64 as 32-byte big-endian words
WordWrapTo0After192 == Zeros(24) \o <<255, 255, 255, 255, 255, 255, 255, 64>>
WordWrapTo0After32 == Zeros(24) \o <<255, 255, 255, 255, 255, 255, 255, 224>>
WordUsizeMax == Zeros(24) \o <<255, 255, 255, 255, 255, 255, 255, 255>>
WordTwoTo64 == Zeros(23) \o <<1>> \o Zeros(8)

OffsetWords == {WordOf(0), WordOf(96), WordOf(160), WordOf(161), WordOf(192), WordOf(193), WordOf(300),
                WordWrapTo0After32, WordUsizeMax, WordTwoTo64}

LengthWords == {WordOf(0), WordOf(5), WordOf(32), WordOf(33),
                WordWrapTo0After192, WordUsizeMax, WordTwoTo64}

ProofBytes == [i \in 1..32 |-> 100 + i]

TailRooms == {0, 1, 32, 64}

\* inputHandle || padded userAddress || offset word || padded inputType || result ||
\* the first room bytes of (length word || 32 proof bytes)
VerifyPayload(offset_word, length_word, tag, room) ==
    Handle(1) \o Zeros(12) \o UserAddress \o offset_word \o Zeros(31) \o <<tag>> \o Handle(2)
    \o SubSeq(length_word \o ProofBytes, 1, room)

VerifyPayloads ==
    {VerifyPayload(o, l, tag, room) :
        o \in OffsetWords, l \in LengthWords, tag \in {5, 12}, room \in TailRooms}

ZeroTopic == Zeros(32)

\* FHE_ADD with its last byte changed: a near miss of a known signature
NearMissTopic == [FHE_ADD EXCEPT ![32] = (FHE_ADD[32] + 1) % 256]

KnownTopics == {event_sig(KnownSignatures[i].sig) : i \in 1..Len(KnownSignatures)}

\* FHE_RAND_BOUNDED with its first byte changed
NearMissLast == [FHE_RAND_BOUNDED EXCEPT ![1] = (FHE_RAND_BOUNDED[1] + 128) % 256]

Topic0s == KnownTopics \cup {ZeroTopic, NearMissTopic, NearMissLast}

\* 0x000...000abc
CallerTopic == Zeros(30) \o <<10, 188>>

\* a second topic whose 12 padding bytes are not zero
DirtyCallerTopic == [i \in 1..32 |-> 64 + i]

ExecutorAddress == [i \in 1..20 |-> 20 + i]

TxHash == [i \in 1..32 |-> 255 - i]

MakeLog(topics, data, block_number, transaction_hash, log_index) ==
    [address |-> ExecutorAddress, topics |-> topics, data |-> data,
     block_number |-> block_number, transaction_hash |-> transaction_hash,
     log_index |-> log_index]

\* every topic0 with every filler payload, with and without the caller topic
PatternLogs ==
    {MakeLog(<<t0>> \o rest, d, Some(7), Some(TxHash), Some(3)) :
        t0 \in Topic0s, rest \in {<< >>, <<CallerTopic>>}, d \in PatternData}

\* every topic0 with every synthetic binary payload
BinaryLogs ==
    {MakeLog(<<t0, CallerTopic>>, d, Some(7), Some(TxHash), Some(3)) :
        t0 \in Topic0s, d \in BinaryPayloads}

\* VerifyInput logs with every offset word, length word and tail
VerifyLogs ==
    {MakeLog(<<VERIFY_INPUT, CallerTopic>>, d, Some(7), Some(TxHash), Some(3)) :
        d \in VerifyPayloads}

\* logs without topics, with more topics, and with delivery metadata left out
MetadataLogs ==
    {MakeLog(topics, d, bn, tx, li) :
        topics \in {<< >>, <<FHE_ADD>>, <<FHE_ADD, DirtyCallerTopic>>,
                    <<VERIFY_INPUT, CallerTopic, DirtyCallerTopic>>, <<ZeroTopic, DirtyCallerTopic>>},
        d \in {Pattern(0, 5), Pattern(160, 5)},
        bn \in {None, Some(0), Some(7)}, tx \in {None, Some(TxHash)}, li \in {None, Some(3)}}

Logs == PatternLogs \cup BinaryLogs \cup VerifyLogs \cup MetadataLogs

\* the logs decoded again and again: a binary operation, data too short, a bad type
\* tag, a proof that is read, a proof offset of 2^64, an unknown topic0, no topics
ConcLogs == <<
    MakeLog(<<FHE_ADD, CallerTopic>>, Pattern(128, 5), Some(7), Some(TxHash), Some(3)),
    MakeLog(<<FHE_SUB>>, Pattern(127, 5), Some(7), Some(TxHash), Some(3)),
    MakeLog(<<CAST, CallerTopic>>, Pattern(96, 12), Some(7), Some(TxHash), Some(3)),
    MakeLog(<<VERIFY_INPUT, CallerTopic>>, VerifyPayload(WordOf(160), WordOf(5), 5, 64),
            Some(7), Some(TxHash), Some(3)),
    MakeLog(<<VERIFY_INPUT, CallerTopic>>, VerifyPayload(WordTwoTo64, WordOf(5), 5, 64),
            Some(7), Some(TxHash), Some(3)),
    MakeLog(<<NearMissTopic, CallerTopic>>, Pattern(200, 5), Some(7), Some(TxHash), Some(3)),
    MakeLog(<< >>, Pattern(160, 5), Some(7), Some(TxHash), Some(3)) >>

\* the logs the stream yields after its first: those of ConcLogs
LaterLogs == {ConcLogs[i] : i \in 1..Len(ConcLogs)}

\* the logs the stream may yield once it has yielded n logs
LogsAt(n) == IF n = 0 THEN Logs ELSE LaterLogs

\* ------------------------------------------------------------------ listener.rs and the callers of the model

\* a cell whose value is taken out by the access that follows its initialisation
force_take(cell, k) ==
    IF cell = None THEN Some(KnownSignatures[k].static) ELSE None

\* Lazy::force on the k-th static (the deref in *signatures::X): the first
\* access runs the closure event_sig(..) and stores its value, every later
\* access finds the stored value
force(cell, k) ==
    IF cell = None THEN Some(KnownSignatures[k].static) ELSE cell

\* the static at which a chain of comparisons topic0 == *X, taken in source
\* order, stops: the first static equal to topic0, or the last static
last_compared(topic0) ==
    IF \E k \in 1..Len(KnownSignatures) : KnownSignatures[k].static = topic0
    THEN CHOOSE k \in 1..Len(KnownSignatures) :
            /\ KnownSignatures[k].static = topic0
            /\ \A j \in 1..(k - 1) : KnownSignatures[j].static # topic0
    ELSE Len(KnownSignatures)

\* the statics after such a chain has run on topic0: every static it has
\* compared has been forced, the others are as they were
forced_by_chain(cs, topic0) ==
    [k \in 1..Len(KnownSignatures) |->
        IF k <= last_compared(topic0) THEN force(cs[k], k) ELSE cs[k]]

NoOutcome == Returned(None)

\* no static of signatures.rs has been dereferenced yet
NoCells == [k \in 1..Len(KnownSignatures) |-> None]

Threads == {1, 2}

\* a thread that is inside neither parse_fhe_event nor is_known_fhe_event
Idle == [log |-> 0, at |-> 0, out |-> None, overflow_checks |-> FALSE,
         topic0 |-> None, known |-> None]

NoThreads == [t \in Threads |-> Idle]

Init ==
    /\ pc = "waiting"
    /\ current = None
    /\ outcome = NoOutcome
    /\ printed = None
    /\ delivered = 0
    /\ handled = 0
    /\ accessed = None
    /\ tagByte = 0
    /\ tagResult = None
    /\ cells = NoCells
    /\ threads = NoThreads
    /\ knownCalls = 0

\* stream.next() yields Some(log)
Deliver(log) ==
    /\ pc = "waiting"
    /\ delivered < MaxLogs
    /\ pc' = "handling"
    /\ current' = Some(log)
    /\ delivered' = delivered + 1
    /\ UNCHANGED <<outcome, printed, handled, accessed, tagByte, tagResult, cells, threads, knownCalls>>

\* parser::log_executor_event(&log): parse, then print the operation or the failure;
\* a panic unwinds out of listen_to_events.  The chain of parse_fhe_event forces
\* every static it compares topic0 with.
LogExecutorEvent(overflow_checks) ==
    /\ pc = "handling"
    /\ LET parsed == parse_fhe_event(current[1], overflow_checks)
       IN  /\ outcome' = parsed
           /\ IF parsed.panicked
              THEN /\ pc' = "panicked"
                   /\ UNCHANGED <<printed, handled>>
              ELSE /\ pc' = "handled"
                   /\ printed' = Some(executor_line(current[1], parsed.ret))
                   /\ handled' = handled + 1
    /\ cells' = IF current[1].topics = << >> THEN cells
                ELSE forced_by_chain(cells, current[1].topics[1])
    /\ UNCHANGED <<current, delivered, accessed, tagByte, tagResult, threads, knownCalls>>

\* a consumer of the decoded operation calls name(), result_handle() and caller() on it
Accessors ==
    /\ pc = "handled"
    /\ outcome.ret # None
    /\ accessed = None
    /\ accessed' = Some([name |-> name(outcome.ret[1]),
                         result_handle |-> result_handle(outcome.ret[1]),
                         caller |-> caller(outcome.ret[1])])
    /\ UNCHANGED <<pc, current, outcome, printed, delivered, handled, tagByte, tagResult, cells, threads, knownCalls>>

\* the loop body ends: the log and the operation decoded from it are dropped
EndOfIteration ==
    /\ pc = "handled"
    /\ pc' = "waiting"
    /\ current' = None
    /\ outcome' = NoOutcome
    /\ printed' = None
    /\ accessed' = None
    /\ UNCHANGED <<delivered, handled, tagByte, tagResult, cells, threads, knownCalls>>

\* stream.next() yields None: "Event stream ended unexpectedly", Ok(())
StreamEnd ==
    /\ pc = "waiting"
    /\ pc' = "ended"
    /\ UNCHANGED <<current, outcome, printed, delivered, handled, accessed, tagByte, tagResult, cells, threads, knownCalls>>

Next ==
    \/ \E log \in LogsAt(delivered) : Deliver(log)
    \/ \E overflow_checks \in BOOLEAN : LogExecutorEvent(overflow_checks)
    \/ Accessors
    \/ EndOfIteration
    \/ StreamEnd

Spec == Init /\ [][Next]_vars

\* ------------------------------------------------------------------ FheType on every byte

InitType ==
    /\ pc = "from_u8"
    /\ tagByte \in Byte
    /\ tagResult = None
    /\ current = None
    /\ outcome = NoOutcome
    /\ printed = None
    /\ delivered = 0
    /\ handled = 0
    /\ accessed = None
    /\ cells = NoCells
    /\ threads = NoThreads
    /\ knownCalls = 0

\* FheType::from_u8(tagByte)
FromU8 ==
    /\ pc = "from_u8"
    /\ tagResult' = from_u8(tagByte)
    /\ pc' = "name"
    /\ UNCHANGED <<tagByte, current, outcome, printed, delivered, handled, accessed, cells, threads, knownCalls>>

\* FheType::name on the tag from_u8 returned
TypeName ==
    /\ pc = "name"
    /\ tagResult # None
    /\ printed' = Some(FheType_name(tagResult[1]))
    /\ pc' = "named"
    /\ UNCHANGED <<tagByte, tagResult, current, outcome, delivered, handled, accessed, cells, threads, knownCalls>>

NextType == FromU8 \/ TypeName

SpecType == InitType /\ [][NextType]_vars

\* ------------------------------------------------------------------ decodes on several threads

\* the BinaryOpType the k-th arm of the chain of parse_fhe_event passes on (arms 1 to 20)
BinaryOpTypes ==
    <<"Add", "Sub", "Mul", "Div", "Rem", "BitAnd", "BitOr", "BitXor", "Shl", "Shr",
      "Rotl", "Rotr", "Eq", "Ne", "Ge", "Gt", "Le", "Lt", "Min", "Max">>

\* the k-th arm of the if/else chain of parse_fhe_event: the layout parser run
\* once topic0 has compared equal to the k-th static
arm(k, metadata, data, overflow_checks) ==
    IF k <= 20 THEN Returned(parse_binary_op(BinaryOpTypes[k], metadata, data))
    ELSE IF k = 21 THEN Returned(parse_unary_op("Neg", metadata, data))
    ELSE IF k = 22 THEN Returned(parse_unary_op("Not", metadata, data))
    ELSE IF k = 23 THEN Returned(parse_trivial_encrypt(metadata, data))
    ELSE IF k = 24 THEN Returned(parse_cast(metadata, data))
    ELSE IF k = 25 THEN Returned(parse_if_then_else(metadata, data))
    ELSE IF k = 26 THEN parse_verify_input(metadata, data, overflow_checks)
    ELSE IF k = 27 THEN Returned(parse_fhe_rand(metadata, data))
    ELSE Returned(parse_fhe_rand_bounded(metadata, data))

InitConc ==
    /\ pc = "threads"
    /\ current = None
    /\ outcome = NoOutcome
    /\ printed = None
    /\ delivered = 0
    /\ handled = 0
    /\ accessed = None
    /\ tagByte = 0
    /\ tagResult = None
    /\ cells = NoCells
    /\ threads = NoThreads
    /\ knownCalls = 0

\* thread t calls parse_fhe_event(&ConcLogs[i]): the check of log.topics and the
\* metadata, which read the log only
Enter(t, i) ==
    /\ pc = "threads"
    /\ threads[t] = Idle
    /\ delivered < MaxLogs
    /\ delivered' = delivered + 1
    /\ threads' = [threads EXCEPT ![t] =
                      IF ConcLogs[i].topics = << >>
                      THEN [Idle EXCEPT !.log = i, !.out = Some(Returned(None))]
                      ELSE [Idle EXCEPT !.log = i, !.at = 1]]
    /\ UNCHANGED <<pc, current, outcome, printed, handled, accessed, tagByte, tagResult, cells, knownCalls>>

\* thread t evaluates the next condition of the chain, topic0 == *signatures::X:
\* the deref forces the static, and on equality the arm runs and returns; after the
\* last condition the else branch returns Unknown
Compare(t, overflow_checks) ==
    /\ pc = "threads"
    /\ threads[t].log # 0
    /\ threads[t].out = None
    /\ LET k == threads[t].at
           log == ConcLogs[threads[t].log]
           cell == force(cells[k], k)
       IN  /\ cells' = [cells EXCEPT ![k] = cell]
           /\ threads' = [threads EXCEPT ![t] =
                 IF cell = Some(log.topics[1])
                 THEN [@ EXCEPT !.out = Some(arm(k, metadata_of(log), log.data, overflow_checks)),
                                !.overflow_checks = overflow_checks]
                 ELSE IF k = Len(KnownSignatures)
                 THEN [@ EXCEPT !.out = Some(Returned(Some(unknown_operation(log.topics[1], log.data))))]
                 ELSE [@ EXCEPT !.at = k + 1]]
    /\ UNCHANGED <<pc, current, outcome, printed, delivered, handled, accessed, tagByte, tagResult, knownCalls>>

\* the caller on thread t has the result (or the thread has unwound) and drops it
Return(t) ==
    /\ pc = "threads"
    /\ threads[t].out # None
    /\ threads' = [threads EXCEPT ![t] = Idle]
    /\ handled' = handled + 1
    /\ UNCHANGED <<pc, current, outcome, printed, delivered, accessed, tagByte, tagResult, cells, knownCalls>>

\* the topic0 values is_known_fhe_event is called with
KnownCallTopics == {FHE_ADD, FHE_MUL, ZeroTopic}

MaxKnownCalls == 2

\* thread t calls is_known_fhe_event(&topic0)
KnownEnter(t, topic0) ==
    /\ pc = "threads"
    /\ threads[t] = Idle
    /\ knownCalls < MaxKnownCalls
    /\ knownCalls' = knownCalls + 1
    /\ threads' = [threads EXCEPT ![t] = [Idle EXCEPT !.topic0 = Some(topic0), !.at = 1]]
    /\ UNCHANGED <<pc, current, outcome, printed, delivered, handled, accessed, tagByte, tagResult, cells>>

\* thread t evaluates the next operand of the || chain, *topic0 == *X: the deref
\* forces the static; on equality the chain is true, after the last operand false
KnownCompare(t) ==
    /\ pc = "threads"
    /\ threads[t].topic0 # None
    /\ threads[t].known = None
    /\ LET k == threads[t].at
           cell == force(cells[k], k)
       IN  /\ cells' = [cells EXCEPT ![k] = cell]
           /\ threads' = [threads EXCEPT ![t] =
                 IF cell = threads[t].topic0 THEN [@ EXCEPT !.known = Some(TRUE)]
                 ELSE IF k = Len(KnownSignatures) THEN [@ EXCEPT !.known = Some(FALSE)]
                 ELSE [@ EXCEPT !.at = k + 1]]
    /\ UNCHANGED <<pc, current, outcome, printed, delivered, handled, accessed, tagByte, tagResult, knownCalls>>

\* the caller on thread t has the answer of is_known_fhe_event and drops it
KnownReturn(t) ==
    /\ pc = "threads"
    /\ threads[t].known # None
    /\ threads' = [threads EXCEPT ![t] = Idle]
    /\ UNCHANGED <<pc, current, outcome, printed, delivered, handled, accessed, tagByte, tagResult, cells, knownCalls>>

NextConc ==
    \/ \E t \in Threads, i \in 1..Len(ConcLogs) : Enter(t, i)
    \/ \E t \in Threads, overflow_checks \in BOOLEAN : Compare(t, overflow_checks)
    \/ \E t \in Threads : Return(t)
    \/ \E t \in Threads, topic0 \in KnownCallTopics : KnownEnter(t, topic0)
    \/ \E t \in Threads : KnownCompare(t)
    \/ \E t \in Threads : KnownReturn(t)

SpecConc == InitConc /\ [][NextConc]_vars

\* ------------------------------------------------------------------ properties

\* parse_fhe_event has run on the current log (it returned or it panicked)
Decoded == pc \in {"handled", "panicked"}

TheLog == current[1]

KnownIndex(topic0) ==
    CHOOSE i \in 1..Len(KnownSignatures) : event_sig(KnownSignatures[i].sig) = topic0

\* the kind a signature belongs to, by the event name it starts with
KindOfName(n) ==
    CASE n \in {"FheNeg", "FheNot"} -> "Unary"
      [] n = "TrivialEncrypt" -> "TrivialEncrypt"
      [] n = "Cast" -> "Cast"
      [] n = "FheIfThenElse" -> "IfThenElse"
      [] n = "VerifyInput" -> "VerifyInput"
      [] n = "FheRand" -> "Rand"
      [] n = "FheRandBounded" -> "RandBounded"
      [] OTHER -> "Binary"

KindOfTopic(topic0) == KindOfName(KnownSignatures[KnownIndex(topic0)].name)

\* the minimum data length stated for each kind
StatedMinimum(kind) ==
    CASE kind = "Binary" -> 128
      [] kind = "Unary" -> 64
      [] kind = "TrivialEncrypt" -> 96
      [] kind = "Cast" -> 96
      [] kind = "IfThenElse" -> 128
      [] kind = "VerifyInput" -> 160
      [] kind = "Rand" -> 96
      [] kind = "RandBounded" -> 128

\* the 0-based positions of the type-tag bytes stated for each kind
StatedTagPositions(kind) ==
    CASE kind \in {"TrivialEncrypt", "Cast", "RandBounded"} -> {63}
      [] kind = "VerifyInput" -> {127}
      [] kind = "Rand" -> {31}
      [] OTHER -> {}

\* C1: decoding never panics: on every raw log parse_fhe_event returns an
\* operation or a decode failure.
C1_NeverPanics == Decoded => ~outcome.panicked

\* C2: a log whose topic0 is no known signature decodes, for any data, to
\* Unknown{topic0, data} with the input topic0 and the input data byte for byte;
\* it is never a failure.
C2_UnknownPreserved ==
    (Decoded /\ TheLog.topics # << >> /\ TheLog.topics[1] \notin KnownTopics)
        => /\ ~outcome.panicked
           /\ outcome.ret = Some([variant |-> "Unknown",
                                  topic0 |-> TheLog.topics[1],
                                  data |-> TheLog.data])

C2_Witness ==
    /\ pc = "handled"
    /\ TheLog.topics # << >>
    /\ TheLog.topics[1] = ZeroTopic
    /\ Len(TheLog.data) = 200
    /\ outcome.ret # None
    /\ outcome.ret[1].variant = "Unknown"
    /\ outcome.ret[1].data = TheLog.data

\* C3: for every known kind, a log with that kind's signature fails to decode
\* when data is shorter than the kind's minimum, and decodes when data has
\* exactly the minimum length and every type-tag byte of the kind is in 0..11.
C3_MinimumLength ==
    (Decoded /\ TheLog.topics # << >> /\ TheLog.topics[1] \in KnownTopics)
        => LET kind == KindOfTopic(TheLog.topics[1])
               n == Len(TheLog.data)
           IN  /\ n < StatedMinimum(kind) => (~outcome.panicked /\ outcome.ret = None)
               /\ (/\ n = StatedMinimum(kind)
                   /\ \A i \in StatedTagPositions(kind) : At(TheLog.data, i) \in 0..11)
                      => (~outcome.panicked /\ outcome.ret # None
                          /\ outcome.ret[1].variant = kind)

C3_Witness ==
    /\ pc = "handled"
    /\ TheLog.topics # << >>
    /\ TheLog.topics[1] = FHE_ADD
    /\ Len(TheLog.data) = 128
    /\ outcome.ret # None
    /\ outcome.ret[1].variant = "Binary"

C3_WitnessBelow ==
    /\ pc = "handled"
    /\ TheLog.topics # << >>
    /\ TheLog.topics[1] = FHE_ADD
    /\ Len(TheLog.data) = 127
    /\ outcome.ret = None

\* C4: binary round trip: for each of the 20 binary kinds and all chosen lhs,
\* rhs, scalar byte and result, decoding lhs || rhs || (31 zero bytes, scalar)
\* || result under the kind's signature yields Binary with exactly that
\* op_type, lhs, rhs, scalar_byte and result.
C4_BinaryRoundTrip ==
    (Decoded /\ TheLog.topics # << >> /\ TheLog.topics[1] \in KnownTopics)
        => LET sig == KnownSignatures[KnownIndex(TheLog.topics[1])]
           IN  KindOfName(sig.name) = "Binary"
               => \A lhs \in Handles, rhs \in Handles, scalar \in ScalarBytes, result \in Handles :
                    TheLog.data = BinaryPayload(lhs, rhs, scalar, result)
                    => /\ ~outcome.panicked
                       /\ outcome.ret # None
                       /\ outcome.ret[1].variant = "Binary"
                       /\ "Fhe" \o outcome.ret[1].op_type = sig.name
                       /\ outcome.ret[1].lhs = lhs
                       /\ outcome.ret[1].rhs = rhs
                       /\ outcome.ret[1].scalar_byte = scalar
                       /\ outcome.ret[1].result = result

C4_Witness ==
    /\ pc = "handled"
    /\ TheLog.topics # << >>
    /\ TheLog.topics[1] = FHE_MAX
    /\ TheLog.data = BinaryPayload(Handle(1), Handle(2), 255, Handle(1))
    /\ outcome.ret # None
    /\ outcome.ret[1].op_type = "Max"
    /\ outcome.ret[1].scalar_byte = 255

\* C5: FheType::from_u8 returns a type tag for exactly the bytes 0..11 (0 = Bool,
\* 1..8 = the unsigned widths 4, 8, 16, 32, 64, 128, 160, 256, 9..11 = the byte
\* blobs 64, 128, 256) and None for every byte from 12 to 255.
C5_FromU8 ==
    pc \in {"name", "named"}
        => /\ tagByte \in 0..11 => tagResult = Some(FheTypeNames[tagByte + 1])
           /\ tagByte \in 12..255 => tagResult = None

C5_Witness == pc = "name" /\ tagByte = 11 /\ tagResult = Some("Bytes256")

\* the value of a 32-byte big-endian word exceeds the natural number n (n < 2^24)
WordExceeds(word, n) ==
    \/ \E i \in 1..29 : word[i] # 0
    \/ 65536 * word[30] + 256 * word[31] + word[32] > n

\* the value of a 32-byte big-endian word that does not exceed a buffer length
WordValue(word) == 65536 * word[30] + 256 * word[31] + word[32]

\* C6: every decode failure is reported as a malformed-operation outcome that
\* carries the offending log's raw topic0 and raw data bytes.
C6_FailureCarriesRecord ==
    (pc = "handled" /\ TheLog.topics # << >> /\ outcome.ret = None)
        => /\ "topic0" \in DOMAIN printed[1]
           /\ "data" \in DOMAIN printed[1]
           /\ printed[1].topic0 = TheLog.topics[1]
           /\ printed[1].data = TheLog.data

\* the proof offset of a VerifyInput payload, or offset + 32 + length, exceeds data.len()
ProofOutOfRange(data) ==
    LET offset_word == Slice(data, 64, 96)
    IN  \/ WordExceeds(offset_word, Len(data))
        \/ /\ WordValue(offset_word) + 32 <= Len(data)
           /\ LET off == WordValue(offset_word)
                  length_word == Slice(data, off, off + 32)
              IN  \/ WordExceeds(length_word, Len(data))
                  \/ off + 32 + WordValue(length_word) > Len(data)

\* C7: a VerifyInput log with data.len() >= 160 and a valid input-type byte
\* whose proof offset, or offset + 32 + length, exceeds data.len() still
\* decodes, with an empty input_proof and the fixed fields unchanged.
C7_OutOfRangeProofIsEmpty ==
    (/\ Decoded
     /\ TheLog.topics # << >>
     /\ TheLog.topics[1] = VERIFY_INPUT
     /\ Len(TheLog.data) >= 160
     /\ At(TheLog.data, 127) \in 0..11
     /\ ProofOutOfRange(TheLog.data))
        => /\ ~outcome.panicked
           /\ outcome.ret # None
           /\ outcome.ret[1].variant = "VerifyInput"
           /\ outcome.ret[1].input_proof = << >>
           /\ outcome.ret[1].input_handle = Slice(TheLog.data, 0, 32)
           /\ outcome.ret[1].user_address = Slice(TheLog.data, 44, 64)
           /\ outcome.ret[1].input_type = FheTypeNames[At(TheLog.data, 127) + 1]
           /\ outcome.ret[1].result = Slice(TheLog.data, 128, 160)

\* C8: for every successfully decoded operation other than Unknown,
\* metadata.caller is the last 20 bytes of topics[1] when the log has more than
\* one topic, and the all-zero address when it has only topic0.
C8_CallerRecovery ==
    (pc = "handled" /\ outcome.ret # None /\ outcome.ret[1].variant # "Unknown")
        => outcome.ret[1].metadata.caller =
              IF Len(TheLog.topics) > 1 THEN SubSeq(TheLog.topics[2], 13, 32) ELSE Zeros(20)

C8_Witness ==
    /\ pc = "handled"
    /\ outcome.ret # None
    /\ outcome.ret[1].variant = "Cast"
    /\ TheLog.topics = <<CAST, CallerTopic>>
    /\ outcome.ret[1].metadata.caller = Zeros(18) \o <<10, 188>>

C8_WitnessOnlyTopic0 ==
    /\ pc = "handled"
    /\ outcome.ret # None
    /\ outcome.ret[1].variant = "Cast"
    /\ TheLog.topics = <<CAST>>
    /\ outcome.ret[1].metadata.caller = Zeros(20)

\* what C9 says of a registry of n signature strings: for every one of them the
\* hash is known and is decoded to that signature's own operation name, and no
\* two distinct signatures have equal hashes
RegistryOf(n) ==
    /\ Len(KnownSignatures) = n
    /\ \A i \in 1..Len(KnownSignatures) :
          is_known_fhe_event(event_sig(KnownSignatures[i].sig))
    /\ \A i, j \in 1..Len(KnownSignatures) :
          i # j => /\ KnownSignatures[i].sig # KnownSignatures[j].sig
                   /\ KnownSignatures[i].static # KnownSignatures[j].static
    /\ (pc = "handled" /\ TheLog.topics # << >> /\ outcome.ret # None)
          => \A i \in 1..Len(KnownSignatures) :
                TheLog.topics[1] = event_sig(KnownSignatures[i].sig)
                => name(outcome.ret[1]) = KnownSignatures[i].name

\* C9 as stated: the signature registry holds 29 known signature strings; each
\* hashes to a topic0 identified as its own operation name, and no two hashes
\* are equal.
C9_TwentyNineSignatures == RegistryOf(29)

\* C9 as amended: the registry holds 28 known signature strings; each hashes to
\* a topic0 that is known and that the decoder dispatches to the operation
\* whose name() is the signature's own event name, and no two hashes are equal.
C9_TwentyEightSignatures == RegistryOf(28)

C9_Witness ==
    /\ pc = "handled"
    /\ TheLog.topics # << >>
    /\ TheLog.topics[1] = event_sig("FheSub(address,bytes32,bytes32,bytes1,bytes32)")
    /\ outcome.ret # None
    /\ name(outcome.ret[1]) = "FheSub"

\* C10: accessors are pure projections: for every operation other than Unknown,
\* result_handle() is Some of the variant's result field and caller() is
\* Some(metadata.caller); for Unknown both are None and name() is "Unknown";
\* no accessor changes the operation.
C10_Projections ==
    accessed # None
        => LET op == outcome.ret[1]
           IN  IF op.variant = "Unknown"
               THEN /\ accessed[1].result_handle = None
                    /\ accessed[1].caller = None
                    /\ accessed[1].name = "Unknown"
               ELSE /\ accessed[1].result_handle = Some(op.result)
                    /\ accessed[1].caller = Some(op.metadata.caller)

C10_Accessors ==
    /\ []C10_Projections
    /\ [][(accessed = None /\ accessed' # None) => outcome' = outcome]_vars

C10_Witness ==
    /\ accessed # None
    /\ outcome.ret[1].variant = "Cast"
    /\ accessed[1].result_handle = Some(Slice(TheLog.data, 64, 96))
    /\ accessed[1].caller = Some(Zeros(18) \o <<10, 188>>)

C10_WitnessUnknown ==
    /\ accessed # None
    /\ outcome.ret[1].variant = "Unknown"
    /\ accessed[1].name = "Unknown"
    /\ accessed[1].result_handle = None

\* C11: a log with an empty topics sequence is never classified as any known
\* kind and never crashes the decoder: for any data bytes parse_fhe_event
\* returns a failure (no operation).
C11_EmptyTopicsFail ==
    (Decoded /\ TheLog.topics = << >>)
        => /\ ~outcome.panicked
           /\ outcome.ret = None
           /\ pc = "handled"
           /\ printed = Some(failed_line(TheLog))

C11_Witness ==
    /\ pc = "handled"
    /\ TheLog.topics = << >>
    /\ Len(TheLog.data) = 160
    /\ outcome = Returned(None)

\* C12: the listener hands each delivered log to the decoder exactly once and
\* in arrival order, and no log stops the loop: every delivered log is either
\* the one being handled or has been handled, and the loop is never left
\* except by the stream ending.
C12_LoopNeverStops ==
    /\ pc \in {"waiting", "handling", "handled", "ended"}
    /\ pc = "handling" => handled + 1 = delivered
    /\ pc \in {"waiting", "handled", "ended"} => handled = delivered

\* C14: every metadata value of a decoded operation is taken from the input
\* log: block number, transaction hash and log index are the log's own, and a
\* log that carries no block number or no log index does not get one made up.
C14_MetadataFromLog ==
    (pc = "handled" /\ outcome.ret # None /\ outcome.ret[1].variant # "Unknown")
        => /\ Some(outcome.ret[1].metadata.block_number) = TheLog.block_number
           /\ outcome.ret[1].metadata.tx_hash = TheLog.transaction_hash
           /\ Some(outcome.ret[1].metadata.log_index) = TheLog.log_index

TaggedKinds == {"TrivialEncrypt", "Cast", "VerifyInput", "Rand", "RandBounded"}

\* the current log has a known signature of a kind with a type tag, and data of
\* at least the kind's minimum length
TaggedAndLongEnough ==
    /\ Decoded
    /\ TheLog.topics # << >>
    /\ TheLog.topics[1] \in KnownTopics
    /\ KindOfTopic(TheLog.topics[1]) \in TaggedKinds
    /\ Len(TheLog.data) >= StatedMinimum(KindOfTopic(TheLog.topics[1]))

\* the type-tag byte of the current log, which is TaggedAndLongEnough
TagByteOfLog ==
    At(TheLog.data, CHOOSE i \in StatedTagPositions(KindOfTopic(TheLog.topics[1])) : TRUE)

\* the current log with its data cut to nothing: too short for every kind
CutShort == [TheLog EXCEPT !.data = << >>]

\* C15: a type-tag byte outside 0..11 is surfaced as a failure of that field, so
\* that the caller can tell it apart from a too-short-data failure of the
\* record: what is returned and printed for the log differs from what is
\* returned and printed for the same log with too little data.
C15_TagFailureDistinct ==
    (pc = "handled" /\ TaggedAndLongEnough /\ TagByteOfLog \notin 0..11)
        => <<outcome.ret, printed>> #
              <<parse_fhe_event(CutShort, TRUE).ret,
                Some(executor_line(CutShort, parse_fhe_event(CutShort, TRUE).ret))>>

\* C16: for TrivialEncrypt, Cast, VerifyInput, Rand and RandBounded logs with
\* sufficient data length, decoding fails if and only if the kind's type-tag
\* byte is 12 or greater; no other byte of data causes a failure.
C16_FailsIffBadTag ==
    TaggedAndLongEnough
        => ((outcome.panicked \/ outcome.ret = None) <=> TagByteOfLog >= 12)

\* the proof C17 states for a VerifyInput payload, the sums taken without wrap-around
StatedProof(data) ==
    LET offset_word == Slice(data, 64, 96)
    IN  IF WordExceeds(offset_word, Len(data) - 32) THEN << >>
        ELSE LET off == WordValue(offset_word)
                 length_word == Slice(data, off, off + 32)
             IN  IF WordExceeds(length_word, Len(data) - off - 32) THEN << >>
                 ELSE Slice(data, off + 32, off + 32 + WordValue(length_word))

\* C17: for every VerifyInput log with data.len() >= 160 (exactly 160 included)
\* and a valid type tag, with offset the value of word2 and length the value of
\* the word at data[offset..offset+32]: input_proof is
\* data[offset+32 .. offset+32+length] whenever offset+32+length <= data.len(),
\* and empty otherwise.
C17_ProofSlice ==
    (/\ Decoded
     /\ TheLog.topics # << >>
     /\ TheLog.topics[1] = VERIFY_INPUT
     /\ Len(TheLog.data) >= 160
     /\ At(TheLog.data, 127) \in 0..11)
        => /\ ~outcome.panicked
           /\ outcome.ret # None
           /\ outcome.ret[1].variant = "VerifyInput"
           /\ outcome.ret[1].input_proof = StatedProof(TheLog.data)

\* the parameter lists of the registered signature strings
ParameterLists ==
    {"(address,bytes32,bytes32,bytes1,bytes32)", "(address,bytes32,bytes32)",
     "(address,uint256,uint8,bytes32)", "(address,bytes32,uint8,bytes32)",
     "(address,bytes32,bytes32,bytes32,bytes32)",
     "(address,bytes32,address,bytes,uint8,bytes32)",
     "(address,uint8,bytes16,bytes32)", "(address,uint256,uint8,bytes16,bytes32)"}

\* C18: dispatch selects the layout that belongs to the signature: whenever a
\* log with a known signature decodes, the operation's variant is the kind of
\* that signature (Binary and Unary with the op_type of the event name), its
\* name() is the event name the signature string starts with, and it is never
\* Unknown.
C18_DispatchSelectsLayout ==
    (pc = "handled" /\ TheLog.topics # << >> /\ outcome.ret # None)
        => \A i \in 1..Len(KnownSignatures) :
              TheLog.topics[1] = event_sig(KnownSignatures[i].sig)
              => LET sig == KnownSignatures[i]
                     op == outcome.ret[1]
                 IN  /\ \E params \in ParameterLists : sig.sig = sig.name \o params
                     /\ op.variant # "Unknown"
                     /\ op.variant = KindOfName(sig.name)
                     /\ op.variant \in {"Binary", "Unary"} => "Fhe" \o op.op_type = sig.name
                     /\ name(op) = sig.name

C18_Witness ==
    /\ pc = "handled"
    /\ TheLog.topics # << >>
    /\ TheLog.topics[1] = event_sig("FheLe(address,bytes32,bytes32,bytes1,bytes32)")
    /\ outcome.ret # None
    /\ outcome.ret[1].variant = "Binary"
    /\ outcome.ret[1].op_type = "Le"
    /\ name(outcome.ret[1]) = "FheLe"

C18_WitnessRandBounded ==
    /\ pc = "handled"
    /\ TheLog.topics # << >>
    /\ TheLog.topics[1] = event_sig("FheRandBounded(address,uint256,uint8,bytes16,bytes32)")
    /\ outcome.ret # None
    /\ name(outcome.ret[1]) = "FheRandBounded"

\* the k-th 32-byte word of data (k = 0, 1, ...), byte by byte
StatedWord(data, k) == [i \in 1..32 |-> data[32 * k + i]]

\* C19: handle-only layouts: a Unary log with at least 64 data bytes decodes to
\* operand = word 0 and result = word 1; an IfThenElse log with at least 128
\* data bytes decodes to control, if_true, if_false and result = words 0, 1, 2
\* and 3; at or above the minimum length both always succeed.
C19_HandleOnlyLayouts ==
    (Decoded /\ TheLog.topics # << >>)
        => LET data == TheLog.data
           IN  /\ (TheLog.topics[1] \in {FHE_NEG, FHE_NOT} /\ Len(data) >= 64)
                     => /\ ~outcome.panicked
                        /\ outcome.ret # None
                        /\ outcome.ret[1].variant = "Unary"
                        /\ outcome.ret[1].ct = StatedWord(data, 0)
                        /\ outcome.ret[1].result = StatedWord(data, 1)
               /\ (TheLog.topics[1] = FHE_IF_THEN_ELSE /\ Len(data) >= 128)
                     => /\ ~outcome.panicked
                        /\ outcome.ret # None
                        /\ outcome.ret[1].variant = "IfThenElse"
                        /\ outcome.ret[1].control = StatedWord(data, 0)
                        /\ outcome.ret[1].if_true = StatedWord(data, 1)
                        /\ outcome.ret[1].if_false = StatedWord(data, 2)
                        /\ outcome.ret[1].result = StatedWord(data, 3)

C19_Witness ==
    /\ pc = "handled"
    /\ TheLog.topics # << >>
    /\ TheLog.topics[1] = FHE_IF_THEN_ELSE
    /\ Len(TheLog.data) = 200
    /\ outcome.ret # None
    /\ outcome.ret[1].if_true # outcome.ret[1].if_false
    /\ outcome.ret[1].if_false = StatedWord(TheLog.data, 2)

C19_WitnessUnary ==
    /\ pc = "handled"
    /\ TheLog.topics # << >>
    /\ TheLog.topics[1] = FHE_NOT
    /\ Len(TheLog.data) = 64
    /\ outcome.ret # None
    /\ outcome.ret[1].ct # outcome.ret[1].result

\* C20: TrivialEncrypt and Cast layouts: with at least 96 data bytes and
\* data[63] in 0..11, TrivialEncrypt decodes plaintext as the big-endian 256-bit
\* unsigned value of data[0..32] (the digit of weight 256^(i-1) is data[32-i]),
\* Cast decodes operand = data[0..32], and both take to_type from data[63] and
\* result = data[64..96].
C20_TrivialEncryptAndCast ==
    (Decoded /\ TheLog.topics # << >> /\ TheLog.topics[1] \in {TRIVIAL_ENCRYPT, CAST}
       /\ Len(TheLog.data) >= 96 /\ At(TheLog.data, 63) \in 0..11)
        => LET data == TheLog.data
           IN  /\ ~outcome.panicked
               /\ outcome.ret # None
               /\ outcome.ret[1].to_type = FheTypeNames[At(data, 63) + 1]
               /\ outcome.ret[1].result = StatedWord(data, 2)
               /\ TheLog.topics[1] = TRIVIAL_ENCRYPT
                     => /\ outcome.ret[1].variant = "TrivialEncrypt"
                        /\ Len(outcome.ret[1].plaintext) = 32
                        /\ \A i \in 1..32 : outcome.ret[1].plaintext[i] = At(data, 32 - i)
               /\ TheLog.topics[1] = CAST
                     => /\ outcome.ret[1].variant = "Cast"
                        /\ outcome.ret[1].ct = StatedWord(data, 0)

C20_Witness ==
    /\ pc = "handled"
    /\ TheLog.topics # << >>
    /\ TheLog.topics[1] = TRIVIAL_ENCRYPT
    /\ Len(TheLog.data) = 96
    /\ At(TheLog.data, 63) = 5
    /\ outcome.ret # None
    /\ outcome.ret[1].to_type = "Uint64"
    /\ outcome.ret[1].plaintext[1] = At(TheLog.data, 31)
    /\ outcome.ret[1].plaintext[1] # outcome.ret[1].plaintext[32]

C20_WitnessCast ==
    /\ pc = "handled"
    /\ TheLog.topics # << >>
    /\ TheLog.topics[1] = CAST
    /\ Len(TheLog.data) = 200
    /\ At(TheLog.data, 63) = 0
    /\ outcome.ret # None
    /\ outcome.ret[1].to_type = "Bool"

\* every result a thread holds is the result of decoding its log alone
C13_ResultOfTheLogAlone ==
    \A t \in Threads :
        threads[t].out # None
            => threads[t].out[1]
                 = parse_fhe_event(ConcLogs[threads[t].log], threads[t].overflow_checks)

\* a static that has been initialised holds the hash of its own signature string
C13_RegistryValues ==
    \A k \in 1..Len(KnownSignatures) :
        cells[k] # None => cells[k] = Some(keccak256[KnownSignatures[k].sig])

\* a static that has been initialised is not written again
C13_RegistryFixed ==
    \A k \in 1..Len(KnownSignatures) : cells[k] # None => cells'[k] = cells[k]

\* C13: decoding is stateless and deterministic: the registry is fixed once
\* initialised and never mutated, and for every sequence and every interleaving
\* of decodes run by several threads the result of decoding a log is the result
\* of decoding that log alone, whatever was decoded before or is being decoded
\* at the same time.
C13_StatelessDecoding ==
    /\ []C13_ResultOfTheLogAlone
    /\ []C13_RegistryValues
    /\ [][C13_RegistryFixed]_vars

\* thread 2 has decoded the binary log after an earlier decode has returned and
\* with every static initialised already
C13_WitnessSequence ==
    /\ handled = 1
    /\ cells[Len(KnownSignatures)] # None
    /\ threads[2].log = 1
    /\ threads[2].out # None
    /\ threads[2].out[1].ret # None
    /\ threads[2].out[1].ret[1].variant = "Binary"

\* thread 1 has decoded the VerifyInput log while thread 2 is in the middle of
\* the chain, at a static that is initialised already
C13_Witness ==
    /\ threads[1].log = 4
    /\ threads[1].out # None
    /\ threads[1].out[1].ret # None
    /\ threads[1].out[1].ret[1].variant = "VerifyInput"
    /\ threads[2].log = 6
    /\ threads[2].out = None
    /\ threads[2].at > 2
    /\ cells[threads[2].at] # None

\* both threads hold a result at the same time, one of them a panic
C13_WitnessPanic ==
    /\ threads[1].out # None
    /\ threads[1].out[1].panicked
    /\ threads[2].out # None
    /\ threads[2].out[1].ret # None
    /\ threads[2].out[1].ret[1].variant = "Unknown"

\* the 16 bytes data[a..a+16], byte by byte
StatedSeed(data, a) == [i \in 1..16 |-> data[a + i]]

\* C21: Rand and RandBounded layouts: a Rand log with at least 96 data bytes and
\* data[31] in 0..11 decodes rand_type from data[31], seed = data[32..48] and
\* result = data[64..96]; a RandBounded log with at least 128 data bytes and
\* data[63] in 0..11 decodes upper_bound as the big-endian value of data[0..32],
\* rand_type from data[63], seed = data[64..80] and result = data[96..128].
C21_RandLayouts ==
    (Decoded /\ TheLog.topics # << >>)
        => LET data == TheLog.data
           IN  /\ (TheLog.topics[1] = FHE_RAND /\ Len(data) >= 96 /\ At(data, 31) \in 0..11)
                     => /\ ~outcome.panicked
                        /\ outcome.ret # None
                        /\ outcome.ret[1].variant = "Rand"
                        /\ outcome.ret[1].rand_type = FheTypeNames[At(data, 31) + 1]
                        /\ outcome.ret[1].seed = StatedSeed(data, 32)
                        /\ outcome.ret[1].result = StatedWord(data, 2)
               /\ (TheLog.topics[1] = FHE_RAND_BOUNDED /\ Len(data) >= 128
                     /\ At(data, 63) \in 0..11)
                     => /\ ~outcome.panicked
                        /\ outcome.ret # None
                        /\ outcome.ret[1].variant = "RandBounded"
                        /\ Len(outcome.ret[1].upper_bound) = 32
                        /\ \A i \in 1..32 : outcome.ret[1].upper_bound[i] = At(data, 32 - i)
                        /\ outcome.ret[1].rand_type = FheTypeNames[At(data, 63) + 1]
                        /\ outcome.ret[1].seed = StatedSeed(data, 64)
                        /\ outcome.ret[1].result = StatedWord(data, 3)

C21_Witness ==
    /\ pc = "handled"
    /\ TheLog.topics # << >>
    /\ TheLog.topics[1] = FHE_RAND
    /\ Len(TheLog.data) = 96
    /\ At(TheLog.data, 31) = 5
    /\ outcome.ret # None
    /\ outcome.ret[1].rand_type = "Uint64"
    /\ outcome.ret[1].seed = StatedSeed(TheLog.data, 32)
    /\ outcome.ret[1].seed # StatedSeed(TheLog.data, 48)

C21_WitnessBounded ==
    /\ pc = "handled"
    /\ TheLog.topics # << >>
    /\ TheLog.topics[1] = FHE_RAND_BOUNDED
    /\ Len(TheLog.data) = 128
    /\ At(TheLog.data, 63) = 11
    /\ outcome.ret # None
    /\ outcome.ret[1].rand_type = "Bytes256"
    /\ outcome.ret[1].upper_bound[1] = 11
    /\ outcome.ret[1].upper_bound[2] # 11

\* C22: the membership test and the dispatch agree: is_known_fhe_event(topic0)
\* is true exactly for the topic0 values on which parse_fhe_event never
\* produces Unknown, whatever the data.
C22_MembershipAgreesWithDispatch ==
    (Decoded /\ TheLog.topics # << >>)
        => (is_known_fhe_event(TheLog.topics[1])
              <=> ~(/\ ~outcome.panicked
                    /\ outcome.ret # None
                    /\ outcome.ret[1].variant = "Unknown"))

C22_Witness ==
    /\ pc = "handled"
    /\ TheLog.topics # << >>
    /\ TheLog.topics[1] = FHE_RAND_BOUNDED
    /\ is_known_fhe_event(TheLog.topics[1])
    /\ outcome.ret # None
    /\ outcome.ret[1].variant = "RandBounded"

C22_WitnessUnknown ==
    /\ pc = "handled"
    /\ TheLog.topics # << >>
    /\ TheLog.topics[1] = NearMissLast
    /\ ~is_known_fhe_event(TheLog.topics[1])
    /\ outcome.ret # None
    /\ outcome.ret[1].variant = "Unknown"

\* the 0-based positions below the minimum length that the claim says a kind
\* does not depend on: the 31 bytes before a tag or scalar byte and the last 16
\* bytes of a seed word
StatedIgnored(kind) ==
    CASE kind = "Binary" -> 64..94
      [] kind \in {"TrivialEncrypt", "Cast"} -> 32..62
      [] kind = "Rand" -> (0..30) \cup (48..63)
      [] kind = "RandBounded" -> (32..62) \cup (80..95)
      [] OTHER -> {}

\* the log that differs from log only in bytes the claim says are ignored: data
\* cut to the kind's minimum length, every ignored byte set to zero
Canonical(log, kind) ==
    [log EXCEPT !.data =
        [i \in 1..StatedMinimum(kind) |->
            IF (i - 1) \in StatedIgnored(kind) THEN 0 ELSE log.data[i]]]

\* C23: for every fixed-layout kind the decoded operation depends only on the
\* topics, the metadata and the bytes below the kind's minimum length that are
\* not padding of a tag or scalar word or the tail of a seed word: a log decodes
\* to the same result as the log with those other bytes removed or zeroed, so
\* two logs that differ only there decode to equal operations.
C23_IgnoredBytes ==
    (Decoded /\ TheLog.topics # << >> /\ TheLog.topics[1] \in KnownTopics
       /\ KindOfTopic(TheLog.topics[1]) # "VerifyInput"
       /\ Len(TheLog.data) >= StatedMinimum(KindOfTopic(TheLog.topics[1])))
        => \A overflow_checks \in BOOLEAN :
              outcome = parse_fhe_event(Canonical(TheLog, KindOfTopic(TheLog.topics[1])),
                                        overflow_checks)

C23_Witness ==
    /\ pc = "handled"
    /\ TheLog.topics # << >>
    /\ TheLog.topics[1] = TRIVIAL_ENCRYPT
    /\ Len(TheLog.data) = 200
    /\ At(TheLog.data, 40) # 0
    /\ Canonical(TheLog, "TrivialEncrypt").data # TheLog.data
    /\ outcome.ret # None
    /\ outcome.ret[1].variant = "TrivialEncrypt"

C23_WitnessRand ==
    /\ pc = "handled"
    /\ TheLog.topics # << >>
    /\ TheLog.topics[1] = FHE_RAND
    /\ Len(TheLog.data) = 96
    /\ At(TheLog.data, 0) # 0
    /\ At(TheLog.data, 50) # 0
    /\ outcome.ret # None
    /\ outcome.ret[1].variant = "Rand"

\* a non-empty input_proof is the slice data[offset+32 .. offset+32+length] of
\* the true, non-wrapping sums, which lies inside 0..data.len()
C24_ProofInsideData ==
    LET data == TheLog.data
        offset_word == Slice(data, 64, 96)
    IN  outcome.ret[1].input_proof # << >>
            => /\ ~WordExceeds(offset_word, Len(data) - 32)
               /\ LET off == WordValue(offset_word)
                      length_word == Slice(data, off, off + 32)
                  IN  /\ ~WordExceeds(length_word, Len(data) - off - 32)
                      /\ outcome.ret[1].input_proof
                           = [i \in 1..WordValue(length_word) |-> data[off + 32 + i]]

\* C24: in parse_verify_input, for any 256-bit offset word and length word, the
\* conversion of the words to usize and the additions offset + 32 and
\* offset + 32 + length never overflow (the decode does not panic), and a
\* non-empty input_proof is returned only if it is a contiguous sub-slice of
\* data inside 0..data.len().
C24_NoOverflowInProofBounds ==
    (/\ Decoded
     /\ TheLog.topics # << >>
     /\ TheLog.topics[1] = VERIFY_INPUT
     /\ Len(TheLog.data) >= 160
     /\ At(TheLog.data, 127) \in 0..11)
        => /\ ~outcome.panicked
           /\ outcome.ret # None
           /\ C24_ProofInsideData

====
